---- MODULE Spec2Model ----
(***************************************************************************)
(* Voice pipeline of src/pages/ChatInterface.jsx: the start/stop handlers, *)
(* the WebSocket callbacks and the capture-frame callback, as a state      *)
(* machine over the browser's event loop.  Every call of                   *)
(* startVoiceRecording creates its own socket, media stream, audio context *)
(* and worklet node; they are indexed by the number of the call.  The text  *)
(* chat (handleSubmit, handleNewConversation) and the audio helper         *)
(* functions of the same file have specifications of their own below.      *)
(***************************************************************************)
EXTENDS Integers, Sequences, FiniteSets, TLC

\* ---- bounds -------------------------------------------------------------
MaxCalls == 2      \* start calls in one behaviour
MaxFrames == 1     \* capture frames posted by the audio thread
MaxBlobs == 1      \* binary frames received
MaxTexts == 2      \* text frames received that carry response text
MaxSubmits == 2    \* handleSubmit calls that pass the blank test
MaxConvs == 2      \* conversations, the initial one included
MaxLen == 4        \* samples in an Int16 buffer given to a helper
MaxRate == 6       \* sample rates are 8000, 16000, ... MaxRate * 8000 Hz
MaxFloats == 2     \* samples in a Float32 buffer given to convertFloat32ToInt16
MaxSample == 6     \* float samples are -MaxSample/SampleDen .. MaxSample/SampleDen
SampleDen == 4     \* denominator of the float samples

\* ---- program constants ---------------------------------------------------
ReceiveRate == 24000   \* sample rate given to encodeWAV for inbound audio
NegScale == 32768      \* 0x8000, line 208
PosScale == 32767      \* 0x7FFF, line 208; also the factor of line 233
Int16Min == -32768     \* least Int16Array element, and the clamp of line 233
Int16Max == 32767      \* greatest Int16Array element, and the clamp of line 233

Calls == 1..MaxCalls
Submits == 1..MaxSubmits

VARIABLES
  recording,        \* useState(false), line 23
  isThinking,       \* useState(false), line 24
  wsRef,            \* useRef(null): 0 or the call whose socket it holds
  mediaStreamRef,   \* useRef(null)
  audioContextRef,  \* useRef(null)
  workletNodeRef,   \* useRef(null)
  nCalls,           \* number of startVoiceRecording calls made
  pc,               \* position of each start call
  cap,              \* the value of `recording` closed over by each call
  ws,               \* readyState of each call's WebSocket, "none" if not created
  sent,             \* log of send() calls on each socket
  stream,           \* each call's MediaStream
  ctx,              \* each call's AudioContext
  node,             \* each call's AudioWorkletNode
  pending,          \* frames posted to the node's port, not yet delivered
  reads,            \* event.data.arrayBuffer() promises not yet resolved
  played,           \* number of audio.play() calls
  playRate,         \* sample rate of the last clip played, 0 before the first
  conversations,    \* useState([]) after the mount effect, line 19
  currentConversationId,  \* useState(null) after the mount effect, line 20
  stored,           \* localStorage "conversations", <<>> while not set
  capConvs,         \* the `conversations` closed over by each start call
  capCur,           \* the `currentConversationId` closed over by each start call
  nTexts,           \* text frames with response text received so far
  nFrames,          \* frames posted so far
  stopped,          \* stopVoiceRecording has returned and no start was called since
  sinceStop,        \* start calls made since the last stop
  cancelled,        \* stop ran while this start call was suspended
  lastOp,           \* the handler that ran last: "stop", "frame" or "other"
  lastCb,           \* after a capture-frame callback: what it did with the frame
  lastStopOps,      \* after a stop: the release operations it performed, in order
  message,          \* useState(""), line 25: the text in the input field
  attachedFile,     \* useState(null): TRUE while a file is attached
  nSubmits,         \* handleSubmit calls that passed the blank test
  pcSubmit,         \* position of each such handleSubmit call
  subConvs,         \* the local `updatedConversations` of each handleSubmit call
  subCur,           \* the `currentConversationId` closed over by each handleSubmit call
  nConvs,           \* conversations created so far (their ids are 1..nConvs)
  buffer,           \* argument of downsampleBuffer / encodeWAV: Int16 samples
  floatBuffer,      \* argument of convertFloat32ToInt16: numerators over SampleDen
  sampleRate,       \* argument sampleRate
  outSampleRate,    \* argument outSampleRate
  result,           \* what the helper last called returned
  warned,           \* the helper last called wrote to console.error
  applied           \* the helper last called, "none" before any

refs == <<wsRef, mediaStreamRef, audioContextRef, workletNodeRef>>
ui == <<recording, isThinking>>
sock == <<ws, sent>>
graph == <<stream, ctx, node>>
chat == <<conversations, currentConversationId, stored, nTexts>>
inbound == <<reads, played, playRate, chat>>
capChat == <<capConvs, capCur>>
calls == <<nCalls, pc, cap, capChat, sinceStop, cancelled>>
hist == <<lastOp, lastCb, lastStopOps>>
form == <<message, attachedFile, nSubmits, pcSubmit, subConvs, subCur, nConvs>>
helpers == <<buffer, floatBuffer, sampleRate, outSampleRate, result, warned,
             applied>>
vars == <<refs, ui, sock, graph, inbound, calls, pending, nFrames, stopped,
          hist, form, helpers>>

\* Every handler but stop and the frame callback leaves this trace.
ran(op) == lastOp' = op /\ lastCb' = "none" /\ lastStopOps' = <<>>

SetupFrame == [kind |-> "setup", state |-> "OPEN"]
AudioFrame(st) == [kind |-> "audio", state |-> st]

InitSession ==
  /\ recording = FALSE /\ isThinking = FALSE
  /\ wsRef = 0 /\ mediaStreamRef = 0 /\ audioContextRef = 0 /\ workletNodeRef = 0
  /\ nCalls = 0
  /\ pc = [k \in Calls |-> "idle"]
  /\ cap = [k \in Calls |-> FALSE]
  /\ ws = [k \in Calls |-> "none"]
  /\ sent = [k \in Calls |-> <<>>]
  /\ stream = [k \in Calls |-> "none"]
  /\ ctx = [k \in Calls |-> "none"]
  /\ node = [k \in Calls |-> "none"]
  /\ pending = [k \in Calls |-> 0]
  /\ reads = [k \in Calls |-> 0]
  /\ played = 0 /\ nFrames = 0 /\ playRate = 0
  /\ conversations = <<[id |-> 1, messages |-> <<>>]>>
  /\ currentConversationId = 1
  /\ stored = <<>>
  /\ capConvs = [k \in Calls |-> <<>>]
  /\ capCur = [k \in Calls |-> 0]
  /\ nTexts = 0
  /\ stopped = FALSE /\ sinceStop = 0
  /\ cancelled = [k \in Calls |-> FALSE]
  /\ lastOp = "other" /\ lastCb = "none" /\ lastStopOps = <<>>

\* The form and the text requests: nothing typed, nothing attached, no
\* request made; the mount effect created conversation 1.
InitForm ==
  /\ message = "" /\ attachedFile = FALSE
  /\ nSubmits = 0
  /\ pcSubmit = [s \in Submits |-> "idle"]
  /\ subConvs = [s \in Submits |-> <<>>]
  /\ subCur = [s \in Submits |-> 0]
  /\ nConvs = 1

\* No helper function has been called.
InitHelpers ==
  /\ buffer = <<>> /\ floatBuffer = <<>>
  /\ sampleRate = 8000 /\ outSampleRate = 8000
  /\ result = <<>> /\ warned = FALSE /\ applied = "none"

Init == InitSession /\ InitForm /\ InitHelpers

\* startVoiceRecording up to its first await (lines 277-340).  The handler
\* invoked is the one of the current render, so the `recording` it closes
\* over is the state's value at the call, and so are the `conversations` and
\* the `currentConversationId` that ws.onmessage closes over.  wsThrows: new
\* WebSocket raised.
startVoiceRecording(wsThrows) ==
  /\ nCalls < MaxCalls
  /\ LET k == nCalls + 1 IN
     /\ nCalls' = k
     /\ cap' = [cap EXCEPT ![k] = recording]
     /\ capConvs' = [capConvs EXCEPT ![k] = conversations]
     /\ capCur' = [capCur EXCEPT ![k] = currentConversationId]
     /\ recording' = TRUE
     /\ isThinking' = FALSE
     /\ IF wsThrows
          THEN UNCHANGED <<ws, wsRef>>
          ELSE /\ ws' = [ws EXCEPT ![k] = "CONNECTING"]
               /\ wsRef' = k
     /\ pc' = [pc EXCEPT ![k] = "getUserMedia"]
  /\ stopped' = FALSE
  /\ sinceStop' = sinceStop + 1
  /\ ran("other")
  /\ UNCHANGED <<mediaStreamRef, audioContextRef, workletNodeRef, sent,
                 graph, inbound, pending, nFrames, cancelled>>
  /\ UNCHANGED <<form, helpers>>

\* await getUserMedia resolved: lines 340-361, up to await addModule.
getUserMediaResolved(k) ==
  /\ pc[k] = "getUserMedia"
  /\ stream' = [stream EXCEPT ![k] = "live"]
  /\ mediaStreamRef' = k
  /\ ctx' = [ctx EXCEPT ![k] = "running"]
  /\ audioContextRef' = k
  /\ pc' = [pc EXCEPT ![k] = "addModule"]
  /\ ran("other")
  /\ UNCHANGED <<wsRef, workletNodeRef, ui, sock, node, inbound, nCalls, cap, capChat,
                 sinceStop, cancelled, pending, nFrames, stopped>>
  /\ UNCHANGED <<form, helpers>>

\* await getUserMedia rejected: line 340 is outside every try block, so the
\* async function's promise rejects and nothing else runs.
getUserMediaRejected(k) ==
  /\ pc[k] = "getUserMedia"
  /\ pc' = [pc EXCEPT ![k] = "rejected"]
  /\ ran("other")
  /\ UNCHANGED <<refs, ui, sock, graph, inbound, nCalls, cap, capChat, sinceStop,
                 cancelled, pending, nFrames, stopped>>
  /\ UNCHANGED <<form, helpers>>

\* await addModule resolved: lines 366-385.
addModuleResolved(k) ==
  /\ pc[k] = "addModule"
  /\ node' = [node EXCEPT ![k] = "connected"]
  /\ workletNodeRef' = k
  /\ pc' = [pc EXCEPT ![k] = "done"]
  /\ ran("other")
  /\ UNCHANGED <<wsRef, mediaStreamRef, audioContextRef, ui, sock, stream, ctx,
                 inbound, nCalls, cap, capChat, sinceStop, cancelled, pending, nFrames,
                 stopped>>
  /\ UNCHANGED <<form, helpers>>

\* await addModule rejected: lines 362-365, log and return.
addModuleRejected(k) ==
  /\ pc[k] = "addModule"
  /\ pc' = [pc EXCEPT ![k] = "moduleFailed"]
  /\ ran("other")
  /\ UNCHANGED <<refs, ui, sock, graph, inbound, nCalls, cap, capChat, sinceStop,
                 cancelled, pending, nFrames, stopped>>
  /\ UNCHANGED <<form, helpers>>

\* close() that puts the socket in CLOSING whatever its state.
closeSocket_always(st) == "CLOSING"

\* WebSocket.close(): a connecting or open socket starts closing, a closing
\* or closed one is left as it is; it never throws.
closeSocket(st) == IF st \in {"CONNECTING", "OPEN"} THEN "CLOSING" ELSE st

\* stopOps without the null check on audioContextRef.
stopOps_unguardedContext ==
  (IF workletNodeRef # 0 THEN <<"disconnectNode">> ELSE <<>>)
  \o <<"closeContext">>
  \o (IF mediaStreamRef # 0 THEN <<"stopTracks">> ELSE <<>>)
  \o (IF wsRef # 0 THEN <<"closeSocket">> ELSE <<>>)

\* stopOps with lines 395-397 and 398-400 exchanged: tracks before context.
stopOps_tracksBeforeContext ==
  (IF workletNodeRef # 0 THEN <<"disconnectNode">> ELSE <<>>)
  \o (IF mediaStreamRef # 0 THEN <<"stopTracks">> ELSE <<>>)
  \o (IF audioContextRef # 0 THEN <<"closeContext">> ELSE <<>>)
  \o (IF wsRef # 0 THEN <<"closeSocket">> ELSE <<>>)

\* The release operations stopVoiceRecording performs, in program order.
stopOps ==
  (IF workletNodeRef # 0 THEN <<"disconnectNode">> ELSE <<>>)
  \o (IF audioContextRef # 0 THEN <<"closeContext">> ELSE <<>>)
  \o (IF mediaStreamRef # 0 THEN <<"stopTracks">> ELSE <<>>)
  \o (IF wsRef # 0 THEN <<"closeSocket">> ELSE <<>>)

\* stopVoiceRecording without lines 401-403: the socket is left as it is.
stopVoiceRecording_keepSocket ==
  /\ recording' = FALSE
  /\ isThinking' = TRUE
  /\ node' = IF workletNodeRef # 0
               THEN [node EXCEPT ![workletNodeRef] = "disconnected"] ELSE node
  /\ workletNodeRef' = 0
  /\ ctx' = IF audioContextRef # 0
              THEN [ctx EXCEPT ![audioContextRef] = "closed"] ELSE ctx
  /\ stream' = IF mediaStreamRef # 0
                 THEN [stream EXCEPT ![mediaStreamRef] = "stopped"] ELSE stream
  /\ cancelled' = [k \in Calls |->
                     cancelled[k] \/ pc[k] \in {"getUserMedia", "addModule"}]
  /\ stopped' = TRUE
  /\ sinceStop' = 0
  /\ lastOp' = "stop" /\ lastStopOps' = stopOps /\ lastCb' = "none"
  /\ UNCHANGED <<wsRef, mediaStreamRef, audioContextRef, sock, inbound,
                 nCalls, pc, cap, capChat, pending, nFrames>>
  /\ UNCHANGED <<form, helpers>>

\* stopVoiceRecording, lines 388-405.  Only workletNodeRef is reset to null.
stopVoiceRecording ==
  /\ recording' = FALSE
  /\ isThinking' = TRUE
  /\ node' = IF workletNodeRef # 0
               THEN [node EXCEPT ![workletNodeRef] = "disconnected"] ELSE node
  /\ workletNodeRef' = 0
  /\ ctx' = IF audioContextRef # 0
              THEN [ctx EXCEPT ![audioContextRef] = "closed"] ELSE ctx
  /\ stream' = IF mediaStreamRef # 0
                 THEN [stream EXCEPT ![mediaStreamRef] = "stopped"] ELSE stream
  /\ ws' = IF wsRef # 0
             THEN [ws EXCEPT ![wsRef] = closeSocket(ws[wsRef])] ELSE ws
  /\ cancelled' = [k \in Calls |->
                     cancelled[k] \/ pc[k] \in {"getUserMedia", "addModule"}]
  /\ stopped' = TRUE
  /\ sinceStop' = 0
  /\ lastOp' = "stop" /\ lastStopOps' = stopOps /\ lastCb' = "none"
  /\ UNCHANGED <<wsRef, mediaStreamRef, audioContextRef, sent, inbound,
                 nCalls, pc, cap, capChat, pending, nFrames>>
  /\ UNCHANGED <<form, helpers>>

\* ws.onopen without line 304: the socket opens and no setup message is sent.
ws_onopen_noSetup(k) ==
  /\ ws[k] = "CONNECTING"
  /\ ws' = [ws EXCEPT ![k] = "OPEN"]
  /\ ran("other")
  /\ UNCHANGED <<refs, ui, sent, graph, inbound, calls, pending, nFrames,
                 stopped>>
  /\ UNCHANGED <<form, helpers>>

\* ws.onopen, lines 284-305: the browser sets readyState to OPEN and runs the
\* handler in the same task; the handler sends the setup message on its own
\* socket.
ws_onopen(k) ==
  /\ ws[k] = "CONNECTING"
  /\ ws' = [ws EXCEPT ![k] = "OPEN"]
  /\ sent' = [sent EXCEPT ![k] = Append(@, SetupFrame)]
  /\ ran("other")
  /\ UNCHANGED <<refs, ui, graph, inbound, calls, pending, nFrames,
                 stopped>>
  /\ UNCHANGED <<form, helpers>>

\* ws.onerror that retries: the failed socket is connecting again.
ws_onerror_reconnects(k) ==
  /\ ws[k] \in {"CONNECTING", "OPEN"}
  /\ ws' = [ws EXCEPT ![k] = "CONNECTING"]
  /\ ran("other")
  /\ UNCHANGED <<refs, ui, sent, graph, inbound, calls, pending, nFrames,
                 stopped>>
  /\ UNCHANGED <<form, helpers>>

\* ws.onerror, lines 333-335: the connection failed; the handler only logs.
ws_onerror(k) ==
  /\ ws[k] \in {"CONNECTING", "OPEN"}
  /\ ws' = [ws EXCEPT ![k] = "CLOSED"]
  /\ ran("other")
  /\ UNCHANGED <<refs, ui, sent, graph, inbound, calls, pending, nFrames,
                 stopped>>
  /\ UNCHANGED <<form, helpers>>

\* The socket reaches CLOSED: the closing handshake that close() started has
\* finished, or the peer closed an open connection.  No onclose handler is
\* installed.
socketClosed(k) ==
  /\ ws[k] \in {"OPEN", "CLOSING"}
  /\ ws' = [ws EXCEPT ![k] = "CLOSED"]
  /\ ran("other")
  /\ UNCHANGED <<refs, ui, sent, graph, inbound, calls, pending,
                 nFrames, stopped>>
  /\ UNCHANGED <<form, helpers>>

\* conversations.map of lines 313-318: the list with msg appended to the
\* messages of the conversation whose id is cur.
appendMessage(convs, cur, msg) ==
  [i \in 1..Len(convs) |->
     IF convs[i].id = cur
       THEN [convs[i] EXCEPT !.messages = Append(@, msg)]
       ELSE convs[i]]

\* updateConversations, lines 58-61: the state and local storage are both set.
updateConversations(updatedConversations) ==
  /\ conversations' = updatedConversations
  /\ stored' = updatedConversations

\* ws.onmessage with a string, lines 308-321.  Messages are only delivered
\* while the socket is OPEN.  hasText: messageData.response.text is set.  The
\* list that is mapped is the one the handler closed over.
ws_onmessage_text(k, hasText) ==
  /\ ws[k] = "OPEN"
  /\ IF hasText
       THEN /\ nTexts < MaxTexts
            /\ nTexts' = nTexts + 1
            /\ updateConversations(
                 appendMessage(capConvs[k], capCur[k],
                               [id |-> nTexts + 1, sender |-> "ai",
                                   content |-> "voice"]))
            /\ isThinking' = FALSE
       ELSE UNCHANGED <<isThinking, conversations, stored, nTexts>>
  /\ ran("other")
  /\ UNCHANGED <<refs, recording, sock, graph, reads, played, playRate,
                 currentConversationId, calls, pending, nFrames, stopped>>
  /\ UNCHANGED <<form, helpers>>

\* Binary frames received so far: those being read and those played.
RECURSIVE readsUpTo(_)
readsUpTo(n) == IF n = 0 THEN 0 ELSE reads[n] + readsUpTo(n - 1)
nBlobs == played + readsUpTo(MaxCalls)

\* ws.onmessage with a Blob, lines 322-324, up to await arrayBuffer().
ws_onmessage_blob(k) ==
  /\ ws[k] = "OPEN"
  /\ nBlobs < MaxBlobs
  /\ reads' = [reads EXCEPT ![k] = @ + 1]
  /\ ran("other")
  /\ UNCHANGED <<refs, ui, sock, graph, played, playRate, chat, calls, pending,
                 nFrames, stopped>>
  /\ UNCHANGED <<form, helpers>>

\* The clip played at the rate of the outbound audio (line 373) instead.
arrayBufferResolved_sendRate(k) ==
  /\ reads[k] > 0
  /\ reads' = [reads EXCEPT ![k] = @ - 1]
  /\ played' = played + 1
  /\ playRate' = 16000
  /\ ran("other")
  /\ UNCHANGED <<refs, ui, sock, graph, chat, calls, pending, nFrames,
                 stopped>>
  /\ UNCHANGED <<form, helpers>>

\* The array-buffer read resolved: lines 325-329, encodeWAV at 24000 Hz and
\* audio.play().
arrayBufferResolved(k) ==
  /\ reads[k] > 0
  /\ reads' = [reads EXCEPT ![k] = @ - 1]
  /\ played' = played + 1
  /\ playRate' = ReceiveRate
  /\ ran("other")
  /\ UNCHANGED <<refs, ui, sock, graph, chat, calls, pending, nFrames,
                 stopped>>
  /\ UNCHANGED <<form, helpers>>

\* PCMProcessor.process, lines 347-355: the audio thread posts a frame to the
\* node's port while the node's context is rendering.
process(k) ==
  /\ node[k] # "none"
  /\ ctx[k] = "running"
  /\ nFrames < MaxFrames
  /\ nFrames' = nFrames + 1
  /\ pending' = [pending EXCEPT ![k] = @ + 1]
  /\ ran("other")
  /\ UNCHANGED <<refs, ui, sock, graph, inbound, calls, stopped>>
  /\ UNCHANGED <<form, helpers>>

\* frameOutcome without the readyState comparison of line 380.
frameOutcome_noStateCheck(k) ==
  IF ~cap[k] THEN "notRecording"
  ELSE IF wsRef = 0 THEN "noSocket"
  ELSE "sent"

\* What the capture-frame callback of call k does with a frame (lines 370 and
\* 380): "sent", or the reason it drops the frame.
frameOutcome(k) ==
  IF ~cap[k] THEN "notRecording"
  ELSE IF wsRef = 0 THEN "noSocket"
  ELSE IF ws[wsRef] # "OPEN" THEN ws[wsRef]
  ELSE "sent"

\* workletNode.port.onmessage, lines 369-383.
workletNode_port_onmessage(k) ==
  /\ pending[k] > 0
  /\ pending' = [pending EXCEPT ![k] = @ - 1]
  /\ sent' = IF frameOutcome(k) = "sent"
               THEN [sent EXCEPT ![wsRef] = Append(@, AudioFrame(ws[wsRef]))]
               ELSE sent
  /\ lastOp' = "frame" /\ lastCb' = frameOutcome(k) /\ lastStopOps' = <<>>
  /\ UNCHANGED <<refs, ui, ws, graph, inbound, calls, nFrames, stopped>>
  /\ UNCHANGED <<form, helpers>>

Next ==
  \/ \E wsThrows \in BOOLEAN : startVoiceRecording(wsThrows)
  \/ stopVoiceRecording
  \/ \E k \in Calls : getUserMediaResolved(k)
  \/ \E k \in Calls : getUserMediaRejected(k)
  \/ \E k \in Calls : addModuleResolved(k)
  \/ \E k \in Calls : addModuleRejected(k)
  \/ \E k \in Calls : ws_onopen(k)
  \/ \E k \in Calls : ws_onerror(k)
  \/ \E k \in Calls : socketClosed(k)
  \/ \E k \in Calls, hasText \in BOOLEAN : ws_onmessage_text(k, hasText)
  \/ \E k \in Calls : ws_onmessage_blob(k)
  \/ \E k \in Calls : arrayBufferResolved(k)
  \/ \E k \in Calls : process(k)
  \/ \E k \in Calls : workletNode_port_onmessage(k)

Spec == Init /\ [][Next]_vars

\* stopVoiceRecording when one of its release calls raises (a platform whose
\* object lacks the method, or whose call throws): no statement of lines
\* 388-405 is inside a try block, so the statements before the failing call
\* have run, the failing call and everything after it have not, and the
\* exception leaves the handler.  failing: 1 disconnect(), 2 close() of the
\* context, 3 track.stop(), 4 close() of the socket.
stopVoiceRecording_raises(failing) ==
  /\ failing \in 1..4
  /\ CASE failing = 1 -> workletNodeRef # 0
       [] failing = 2 -> audioContextRef # 0
       [] failing = 3 -> mediaStreamRef # 0
       [] failing = 4 -> wsRef # 0
  /\ recording' = FALSE
  /\ isThinking' = TRUE
  /\ node' = IF failing > 1 /\ workletNodeRef # 0
               THEN [node EXCEPT ![workletNodeRef] = "disconnected"] ELSE node
  /\ workletNodeRef' = IF failing > 1 THEN 0 ELSE workletNodeRef
  /\ ctx' = IF failing > 2 /\ audioContextRef # 0
              THEN [ctx EXCEPT ![audioContextRef] = "closed"] ELSE ctx
  /\ stream' = IF failing > 3 /\ mediaStreamRef # 0
                 THEN [stream EXCEPT ![mediaStreamRef] = "stopped"] ELSE stream
  /\ lastOp' = "stopRaised"
  /\ lastStopOps' =
       (IF failing > 1 /\ workletNodeRef # 0 THEN <<"disconnectNode">> ELSE <<>>)
       \o (IF failing > 2 /\ audioContextRef # 0 THEN <<"closeContext">> ELSE <<>>)
       \o (IF failing > 3 /\ mediaStreamRef # 0 THEN <<"stopTracks">> ELSE <<>>)
  /\ lastCb' = "none"
  /\ UNCHANGED <<wsRef, mediaStreamRef, audioContextRef, sock, inbound, calls,
                 pending, nFrames, stopped>>
  /\ UNCHANGED <<form, helpers>>

\* The session's life cycle on a platform where a release call of stop may
\* raise.  The frame and message callbacks are left out: they touch none of
\* the resources stop releases.
NextRelease ==
  \/ \E wsThrows \in BOOLEAN : startVoiceRecording(wsThrows)
  \/ stopVoiceRecording
  \/ \E failing \in 1..4 : stopVoiceRecording_raises(failing)
  \/ \E k \in Calls : getUserMediaResolved(k)
  \/ \E k \in Calls : getUserMediaRejected(k)
  \/ \E k \in Calls : addModuleResolved(k)
  \/ \E k \in Calls : addModuleRejected(k)
  \/ \E k \in Calls : ws_onopen(k)
  \/ \E k \in Calls : ws_onerror(k)
  \/ \E k \in Calls : socketClosed(k)

SpecRelease == Init /\ [][NextRelease]_vars

\* ---- the text chat, lines 101-194 ------------------------------------------
\* What the input field may hold: nothing, blanks only, a text.
Texts == {"", " ", "hi"}

\* message.trim(), on Texts.
trim(text) == IF text = " " THEN "" ELSE text

\* The ids of the messages handleSubmit call s creates (Date.now() + "_file",
\* "_text", "_ai", "_error"), kept apart from the ids of the voice messages.
messageId(s, content) ==
  MaxTexts + 4 * (s - 1) +
    CASE content = "file" -> 1 [] content = "text" -> 2
      [] content = "reply" -> 3 [] content = "error" -> 4

\* The message objects of lines 111, 122, 162 and 172.
newMessage(s, content) ==
  [id |-> messageId(s, content),
   sender |-> IF content \in {"file", "text"} THEN "user" ELSE "ai",
   content |-> content]

\* onChange of the input field, line 507.
setMessage(text) ==
  /\ message' = text
  /\ ran("other")
  /\ UNCHANGED <<attachedFile, nSubmits, pcSubmit, subConvs, subCur, nConvs>>
  /\ UNCHANGED <<refs, ui, sock, graph, inbound, calls, pending, nFrames,
                 stopped, helpers>>

\* handleFileUpload, lines 84-98, once the file has been read.
handleFileUpload ==
  /\ attachedFile' = TRUE
  /\ ran("other")
  /\ UNCHANGED <<message, nSubmits, pcSubmit, subConvs, subCur, nConvs>>
  /\ UNCHANGED <<refs, ui, sock, graph, inbound, calls, pending, nFrames,
                 stopped, helpers>>

\* Lines 107-129: the list handleSubmit call s stores before its request, the
\* file bubble and the text bubble added to the current conversation.
withUserMessages(s) ==
  LET withFile == IF attachedFile
                    THEN appendMessage(conversations, currentConversationId,
                                       newMessage(s, "file"))
                    ELSE conversations
  IN  IF trim(message) # ""
        THEN appendMessage(withFile, currentConversationId,
                           newMessage(s, "text"))
        ELSE withFile

\* handleSubmit up to its await, lines 101-157.  With no text and no file it
\* returns at line 104.  The request is issued inside the try block; the
\* call keeps its local updatedConversations and the currentConversationId it
\* closed over.
handleSubmit ==
  IF trim(message) = "" /\ ~attachedFile
    THEN UNCHANGED vars
    ELSE /\ nSubmits < MaxSubmits
         /\ LET s == nSubmits + 1 IN
              /\ nSubmits' = s
              /\ updateConversations(withUserMessages(s))
              /\ subConvs' = [subConvs EXCEPT ![s] = withUserMessages(s)]
              /\ subCur' = [subCur EXCEPT ![s] = currentConversationId]
              /\ pcSubmit' = [pcSubmit EXCEPT ![s] = "awaiting"]
         /\ isThinking' = TRUE
         /\ ran("other")
         /\ UNCHANGED <<message, attachedFile, nConvs>>
         /\ UNCHANGED <<refs, recording, sock, graph, reads, played, playRate,
                        currentConversationId, nTexts, calls, pending, nFrames,
                        stopped, helpers>>

\* The list a handleSubmit call stores when it ends, lines 163-168 and
\* 173-178: its local updatedConversations with msg added to the conversation
\* that was current when it was called.
withAnswer(s, msg) == appendMessage(subConvs[s], subCur[s], msg)

\* The awaited request of call s resolved: lines 161-169, then the finally
\* block, lines 180-184.
requestResolved(s) ==
  /\ pcSubmit[s] = "awaiting"
  /\ pcSubmit' = [pcSubmit EXCEPT ![s] = "done"]
  /\ updateConversations(withAnswer(s, newMessage(s, "reply")))
  /\ isThinking' = FALSE
  /\ message' = ""
  /\ attachedFile' = FALSE
  /\ ran("other")
  /\ UNCHANGED <<nSubmits, subConvs, subCur, nConvs>>
  /\ UNCHANGED <<refs, recording, sock, graph, reads, played, playRate,
                 currentConversationId, nTexts, calls, pending, nFrames,
                 stopped, helpers>>

\* The awaited request of call s was rejected, or result.response.text()
\* threw: the catch block, lines 170-179, then the finally block.
requestRejected(s) ==
  /\ pcSubmit[s] = "awaiting"
  /\ pcSubmit' = [pcSubmit EXCEPT ![s] = "done"]
  /\ updateConversations(withAnswer(s, newMessage(s, "error")))
  /\ isThinking' = FALSE
  /\ message' = ""
  /\ attachedFile' = FALSE
  /\ ran("other")
  /\ UNCHANGED <<nSubmits, subConvs, subCur, nConvs>>
  /\ UNCHANGED <<refs, recording, sock, graph, reads, played, playRate,
                 currentConversationId, nTexts, calls, pending, nFrames,
                 stopped, helpers>>

\* handleNewConversation, lines 188-194.
handleNewConversation ==
  /\ nConvs < MaxConvs
  /\ nConvs' = nConvs + 1
  /\ updateConversations(<<[id |-> nConvs + 1, messages |-> <<>>]>>
                         \o conversations)
  /\ currentConversationId' = nConvs + 1
  /\ ran("other")
  /\ UNCHANGED <<message, attachedFile, nSubmits, pcSubmit, subConvs, subCur>>
  /\ UNCHANGED <<refs, ui, sock, graph, reads, played, playRate, nTexts,
                 calls, pending, nFrames, stopped, helpers>>

\* handleSelectConversation, lines 197-200: a click on an entry of the list.
handleSelectConversation(id) ==
  /\ \E i \in 1..Len(conversations) : conversations[i].id = id
  /\ currentConversationId' = id
  /\ ran("other")
  /\ UNCHANGED <<message, attachedFile, nSubmits, pcSubmit, subConvs, subCur,
                 nConvs>>
  /\ UNCHANGED <<refs, ui, sock, graph, reads, played, playRate,
                 conversations, stored, nTexts, calls, pending, nFrames,
                 stopped, helpers>>

NextChat ==
  \/ \E text \in Texts : setMessage(text)
  \/ handleFileUpload
  \/ handleSubmit
  \/ \E s \in Submits : requestResolved(s)
  \/ \E s \in Submits : requestRejected(s)
  \/ handleNewConversation
  \/ \E id \in 1..MaxConvs : handleSelectConversation(id)

SpecChat == Init /\ [][NextChat]_vars

\* The thinking indicator: the form holds whatever the user typed or
\* attached, and the handlers that write isThinking run together with what
\* enables them.  The awaits of startVoiceRecording, the capture frames and
\* the binary frames neither read nor write isThinking.
InitThinking ==
  /\ InitSession /\ InitHelpers
  /\ message \in Texts /\ attachedFile \in BOOLEAN
  /\ nSubmits = 0
  /\ pcSubmit = [s \in Submits |-> "idle"]
  /\ subConvs = [s \in Submits |-> <<>>]
  /\ subCur = [s \in Submits |-> 0]
  /\ nConvs = 1

NextThinking ==
  \/ handleSubmit
  \/ \E s \in Submits : requestResolved(s)
  \/ \E s \in Submits : requestRejected(s)
  \/ \E wsThrows \in BOOLEAN : startVoiceRecording(wsThrows)
  \/ stopVoiceRecording
  \/ \E k \in Calls : ws_onopen(k)
  \/ \E k \in Calls : socketClosed(k)
  \/ \E k \in Calls, hasText \in BOOLEAN : ws_onmessage_text(k, hasText)

\* Every pending request settles, and every socket that is connecting or
\* closing gets its open or close event.
SpecThinking ==
  /\ InitThinking
  /\ [][NextThinking]_vars
  /\ WF_vars(\E s \in Submits : requestResolved(s) \/ requestRejected(s))
  /\ WF_vars(\E k \in Calls : ws_onopen(k) \/ socketClosed(k))

\* ---- the audio helper functions, lines 203-275 ----------------------------
\* Sample rates in Hz.
Rates == {8000 * r : r \in 1..MaxRate}

\* Int16 sample values: both ends of the range, zero and small values.
Int16Values == {Int16Min, -1, 0, 2, Int16Max}

\* All sequences over S with at most n elements.
RECURSIVE SeqsUpTo(_, _)
SeqsUpTo(S, n) ==
  IF n = 0 THEN {<<>>}
  ELSE LET shorter == SeqsUpTo(S, n - 1) IN
         shorter \cup {Append(q, x) : q \in {t \in shorter : Len(t) = n - 1},
                                      x \in S}

\* Math.round(num / den) for den > 0: the nearest integer, a half goes up.
MathRound(num, den) == (2 * num + den) \div (2 * den)

\* Math.trunc, the first step of storing a number in an Int16Array.
MathTrunc(num, den) ==
  IF num >= 0 THEN num \div den ELSE -((-num) \div den)

\* Storing an integer in an Int16Array element: it wraps modulo 2^16.
toInt16(v) == ((v - Int16Min) % (Int16Max - Int16Min + 1)) + Int16Min

\* s < 0 ? s * 0x8000 : s * 0x7FFF with one scale for both signs.
scaled_oneScale(num) == num * PosScale

\* Line 208 for the clamped sample num/SampleDen: the numerator of the scaled
\* value over SampleDen.
scaled(num) == IF num < 0 THEN num * NegScale ELSE num * PosScale

\* Line 207: Math.max(-1, Math.min(1, s)) on numerators over SampleDen.
clampUnit(num) ==
  IF num > SampleDen THEN SampleDen
  ELSE IF num < -SampleDen THEN -SampleDen ELSE num

\* convertFloat32ToInt16, lines 203-211.  The scaled value is stored in an
\* Int16Array, which drops its fraction.
convertFloat32ToInt16(buf) ==
  [i \in 1..Len(buf) |-> toInt16(MathTrunc(scaled(clampUnit(buf[i])), SampleDen))]

\* Line 222 with the quotient cut off instead of rounded.
newLength_truncated(len, rate, outRate) == (len * outRate) \div rate

\* Line 222: Math.round(buffer.length / (sampleRate / outSampleRate)).
newLength(len, rate, outRate) == MathRound(len * outRate, rate)

\* Line 227 for output index i (from 0):
\* Math.round((offsetResult + 1) * sampleRateRatio).
nextOffsetBuffer(i, rate, outRate) == MathRound((i + 1) * rate, outRate)

\* offsetBuffer when output index i is computed: 0, then the previous
\* nextOffsetBuffer (lines 225, 234).
offsetBuffer(i, rate, outRate) ==
  IF i = 0 THEN 0 ELSE nextOffsetBuffer(i - 1, rate, outRate)

\* The inner loop without its test i < buffer.length.
blockIndices_noLengthTest(len, i, rate, outRate) ==
  {j \in offsetBuffer(i, rate, outRate)..(nextOffsetBuffer(i, rate, outRate) - 1) :
     TRUE}

\* The indices (from 0) the inner loop of line 229 reads for output index i.
blockIndices(len, i, rate, outRate) ==
  {j \in offsetBuffer(i, rate, outRate)..(nextOffsetBuffer(i, rate, outRate) - 1) :
     j < len}

\* accum of lines 228-232 over a set of indices of the buffer.
RECURSIVE accumOver(_, _)
accumOver(buf, idx) ==
  IF idx = {} THEN 0
  ELSE LET j == CHOOSE x \in idx : TRUE IN
         buf[j + 1] + accumOver(buf, idx \ {j})

\* Line 233: Math.min(32767, Math.max(-32768, Math.round((accum / count) *
\* 32767))), stored in an Int16Array.  With count = 0 the quotient is NaN and
\* the element stored is 0.  A mean of 2 or more, or of -2 or less, is
\* clamped whatever its product is, so the product is only formed between.
blockSample(accum, count) ==
  IF count = 0 THEN 0
  ELSE IF accum >= 2 * count THEN Int16Max
  ELSE IF accum <= -2 * count THEN Int16Min
  ELSE LET r == MathRound(accum * PosScale, count) IN
         IF r > Int16Max THEN Int16Max ELSE IF r < Int16Min THEN Int16Min ELSE r

\* Lines 221-237: the block averages.  A block that reads past the end of the
\* buffer adds undefined: its sum is NaN and the element stored is 0.
blockAverages(buf, rate, outRate) ==
  [o \in 1..newLength(Len(buf), rate, outRate) |->
     LET idx == blockIndices(Len(buf), o - 1, rate, outRate) IN
       IF \E j \in idx : j >= Len(buf)
         THEN 0
         ELSE blockSample(accumOver(buf, idx), Cardinality(idx))]

\* downsampleBuffer without the test of line 217.
downsampleBuffer_noUpsampleTest(buf, rate, outRate) ==
  IF outRate = rate THEN buf ELSE blockAverages(buf, rate, outRate)

\* downsampleBuffer, lines 213-238.
downsampleBuffer(buf, rate, outRate) ==
  IF outRate = rate THEN buf
  ELSE IF outRate > rate THEN buf
  ELSE blockAverages(buf, rate, outRate)

\* The n bytes of v, least significant first (DataView set* with
\* littleEndian = true); v is taken modulo 256^n.
RECURSIVE littleEndian(_, _)
littleEndian(v, n) ==
  IF n = 0 THEN <<>> ELSE <<v % 256>> \o littleEndian(v \div 256, n - 1)

\* The samples as 16-bit little-endian two's complement, lines 271-273.
RECURSIVE sampleBytes(_)
sampleBytes(samples) ==
  IF samples = <<>> THEN <<>>
  ELSE littleEndian(samples[1] % 65536, 2) \o sampleBytes(Tail(samples))

\* encodeWAV with the data size written in samples, not bytes.
encodeWAV_sizeInSamples(samples, rate) ==
  <<82, 73, 70, 70>> \o littleEndian(36 + Len(samples) * 2, 4)
  \o <<87, 65, 86, 69>> \o <<102, 109, 116, 32>>
  \o littleEndian(16, 4) \o littleEndian(1, 2) \o littleEndian(1, 2)
  \o littleEndian(rate, 4) \o littleEndian(rate * 2, 4)
  \o littleEndian(2, 2) \o littleEndian(16, 2)
  \o <<100, 97, 116, 97>> \o littleEndian(Len(samples), 4)
  \o sampleBytes(samples)

\* encodeWAV, lines 249-275: the bytes of the buffer.  "RIFF", the chunk
\* size, "WAVE", "fmt ", 16, format 1, 1 channel, the rate, the byte rate,
\* block align 2, 16 bits, "data", the data size, the samples.
encodeWAV(samples, rate) ==
  <<82, 73, 70, 70>> \o littleEndian(36 + Len(samples) * 2, 4)
  \o <<87, 65, 86, 69>> \o <<102, 109, 116, 32>>
  \o littleEndian(16, 4) \o littleEndian(1, 2) \o littleEndian(1, 2)
  \o littleEndian(rate, 4) \o littleEndian(rate * 2, 4)
  \o littleEndian(2, 2) \o littleEndian(16, 2)
  \o <<100, 97, 116, 97>> \o littleEndian(Len(samples) * 2, 4)
  \o sampleBytes(samples)

\* The arguments a helper may be called with: an Int16 buffer and two rates,
\* or a Float32 buffer.
InitArguments ==
  /\ result = <<>> /\ warned = FALSE /\ applied = "none"
  /\ \/ /\ buffer \in SeqsUpTo(Int16Values, MaxLen)
        /\ sampleRate \in Rates /\ outSampleRate \in Rates
        /\ floatBuffer = <<>>
     \/ /\ floatBuffer \in SeqsUpTo(-MaxSample..MaxSample, MaxFloats)
        /\ buffer = <<>>
        /\ sampleRate = 8000 /\ outSampleRate = 8000

InitHelperCalls == InitSession /\ InitForm /\ InitArguments

\* A call downsampleBuffer(buffer, sampleRate, outSampleRate).
call_downsampleBuffer ==
  /\ result' = downsampleBuffer(buffer, sampleRate, outSampleRate)
  /\ warned' = (outSampleRate # sampleRate /\ outSampleRate > sampleRate)
  /\ applied' = "downsampleBuffer"
  /\ UNCHANGED <<buffer, floatBuffer, sampleRate, outSampleRate>>
  /\ UNCHANGED <<refs, ui, sock, graph, inbound, calls, pending, nFrames,
                 stopped, hist, form>>

\* A call encodeWAV(buffer, sampleRate).
call_encodeWAV ==
  /\ result' = encodeWAV(buffer, sampleRate)
  /\ warned' = FALSE
  /\ applied' = "encodeWAV"
  /\ UNCHANGED <<buffer, floatBuffer, sampleRate, outSampleRate>>
  /\ UNCHANGED <<refs, ui, sock, graph, inbound, calls, pending, nFrames,
                 stopped, hist, form>>

\* A call convertFloat32ToInt16(floatBuffer).
call_convertFloat32ToInt16 ==
  /\ result' = convertFloat32ToInt16(floatBuffer)
  /\ warned' = FALSE
  /\ applied' = "convertFloat32ToInt16"
  /\ UNCHANGED <<buffer, floatBuffer, sampleRate, outSampleRate>>
  /\ UNCHANGED <<refs, ui, sock, graph, inbound, calls, pending, nFrames,
                 stopped, hist, form>>

NextHelperCalls ==
  \/ call_downsampleBuffer
  \/ call_encodeWAV
  \/ call_convertFloat32ToInt16

SpecHelpers == InitHelperCalls /\ [][NextHelperCalls]_vars

\* ---- vocabulary of the claims --------------------------------------------
Suspended == {"getUserMedia", "addModule"}
Ended == {"done", "rejected", "moduleFailed"}
ConnectionActive(k) == ws[k] \in {"CONNECTING", "OPEN"}
GraphActive(k) == stream[k] = "live" \/ ctx[k] = "running" \/ node[k] = "connected"

\* The start calls made since the last stop (all of them, if there was none).
Recent == {k \in Calls : nCalls - sinceStop < k /\ k <= nCalls}

RECURSIVE audioCount(_)
audioCount(log) ==
  IF log = <<>> THEN 0
  ELSE (IF Head(log).kind = "audio" THEN 1 ELSE 0) + audioCount(Tail(log))

RECURSIVE setupCount(_)
setupCount(log) ==
  IF log = <<>> THEN 0
  ELSE (IF Head(log).kind = "setup" THEN 1 ELSE 0) + setupCount(Tail(log))

\* ---- C1 -------------------------------------------------------------------
\* C1: once stopVoiceRecording has returned (and until start is called again)
\* no realtime-audio frame is sent on any connection; a capture-frame callback
\* that runs in that period sends nothing.
C1_NoAudioAfterStop ==
  [][stopped => \A k \in Calls : audioCount(sent'[k]) = audioCount(sent[k])]_vars

\* A callback of a graph whose closure holds recording = true ran after stop
\* and found the socket closing or closed.
C1_Witness ==
  /\ stopped
  /\ lastOp = "frame"
  /\ lastCb \in {"CLOSING", "CLOSED"}

\* ---- C2 -------------------------------------------------------------------
\* C2: once stopVoiceRecording has returned, no inbound frame starts playback,
\* even when its array-buffer read was started before the stop.
C2_NoPlaybackAfterStop ==
  [][stopped => played' = played]_vars

\* ---- C3 -------------------------------------------------------------------
\* C3: start calls with no stop in between leave at most one active connection
\* and at most one microphone stream, audio context and processor node.
C3_NoDuplicateResources ==
  sinceStop >= 2 =>
    /\ Cardinality({k \in Recent : ConnectionActive(k)}) <= 1
    /\ Cardinality({k \in Recent : stream[k] = "live"}) <= 1
    /\ Cardinality({k \in Recent : ctx[k] = "running"}) <= 1
    /\ Cardinality({k \in Recent : node[k] = "connected"}) <= 1

\* ---- C4 -------------------------------------------------------------------
\* C4: a start call that was suspended when stop ran, and has since run to its
\* end, has left no microphone stream, audio context or capture node active
\* and no connection open.
C4_StopCancelsStart ==
  \A k \in Calls :
    (cancelled[k] /\ pc[k] \in Ended) =>
      (~GraphActive(k) /\ ~ConnectionActive(k))

\* ---- C5 -------------------------------------------------------------------
\* C5: a stop skips every sub-resource whose reference is null (it neither
\* lists a release operation for it nor changes any such resource) and leaves
\* the session not recording.
C5_StopToleratesPartialInit ==
  [][lastOp' = "stop" =>
       /\ recording' = FALSE
       /\ (workletNodeRef = 0 =>
             node' = node /\ \A i \in 1..Len(lastStopOps') :
                               lastStopOps'[i] # "disconnectNode")
       /\ (audioContextRef = 0 =>
             ctx' = ctx /\ \A i \in 1..Len(lastStopOps') :
                             lastStopOps'[i] # "closeContext")
       /\ (mediaStreamRef = 0 =>
             stream' = stream /\ \A i \in 1..Len(lastStopOps') :
                                   lastStopOps'[i] # "stopTracks")
       /\ (wsRef = 0 =>
             ws' = ws /\ \A i \in 1..Len(lastStopOps') :
                           lastStopOps'[i] # "closeSocket")]_vars

\* stop ran while start was awaiting the microphone: the socket exists, the
\* stream, the context and the node do not.
C5_Witness ==
  /\ lastOp = "stop"
  /\ lastStopOps = <<"closeSocket">>
  /\ \E k \in Calls : pc[k] = "getUserMedia" /\ ws[k] = "CLOSING"
  /\ ~recording

\* ---- C6 -------------------------------------------------------------------
\* C6: every send() call, of a setup frame or of an audio frame, is made on a
\* socket whose readyState is OPEN at the call; a capture-frame callback that
\* finds no socket or a socket in another state sends nothing.
C6_SendOnlyWhenOpen ==
  /\ [](\A k \in Calls : \A i \in 1..Len(sent[k]) : sent[k][i].state = "OPEN")
  /\ [][(lastOp' = "frame" /\ (wsRef = 0 \/ ws[wsRef] # "OPEN"))
          => sent' = sent]_vars

\* While the session was recording, the connection that had carried the setup
\* frame failed, and a later callback that passed the recording check found it
\* CLOSED.
C6_Witness ==
  /\ ~stopped
  /\ lastOp = "frame"
  /\ lastCb = "CLOSED"
  /\ wsRef # 0
  /\ Len(sent[wsRef]) >= 1

\* ---- C7 -------------------------------------------------------------------
\* C7: a frame is transmitted exactly when its callback runs while the
\* connection is OPEN, and at no other time (a frame that comes while the
\* connection is CONNECTING is gone, nothing sends it later).
C7_SentIffProducedWhileOpen ==
  [][IF lastOp' = "frame"
       THEN (sent' # sent) <=> (wsRef # 0 /\ ws[wsRef] = "OPEN")
       ELSE \A k \in Calls : audioCount(sent'[k]) = audioCount(sent[k])]_vars

\* ---- C8 -------------------------------------------------------------------
\* C8: a connection's log of sends is empty until it opens; the step that
\* opens it makes the log exactly the setup frame; from then on the log starts
\* with the one setup frame and everything after it is audio.
C8_SetupFirstAndOnce ==
  /\ [](\A k \in Calls :
          /\ ws[k] \in {"none", "CONNECTING"} => sent[k] = <<>>
          /\ ws[k] = "OPEN" => Len(sent[k]) >= 1
          /\ sent[k] # <<>> =>
               /\ sent[k][1].kind = "setup"
               /\ setupCount(sent[k]) = 1)
  /\ [][\A k \in Calls :
          (ws[k] = "CONNECTING" /\ ws'[k] = "OPEN") => sent'[k] = <<SetupFrame>>]_vars

\* A connection that carried its setup frame and then an audio frame.
C8_Witness ==
  \E k \in Calls :
    /\ Len(sent[k]) = 2
    /\ sent[k][1].kind = "setup"
    /\ sent[k][2].kind = "audio"

\* ---- C9 -------------------------------------------------------------------
\* C9: when a start call fails (getUserMedia rejects or addModule rejects),
\* then at that point its socket, media stream and audio context are torn
\* down and the session is not recording.
C9_FailedStartTearsDown ==
  [][\A k \in Calls :
       (pc[k] \in Suspended /\ pc'[k] \in {"rejected", "moduleFailed"}) =>
         /\ ~recording'
         /\ ~ConnectionActive(k)'
         /\ stream'[k] # "live"
         /\ ctx'[k] # "running"]_vars

\* ---- C10 ------------------------------------------------------------------
\* C10: when the session's connection goes to CLOSED without stop having
\* closed it (an error, or the peer closing), the session stops reporting
\* that it is recording.
C10_ErrorEndsSession ==
  [][\A k \in Calls :
       (k = wsRef /\ ws[k] \in {"CONNECTING", "OPEN"} /\ ws'[k] = "CLOSED")
         => ~recording']_vars

\* ---- C11 ------------------------------------------------------------------
\* C11: whenever the session reports recording and no start call is suspended,
\* the referenced connection is connecting or open and the referenced capture
\* graph (stream, context, node) is set up and connected.
C11_RecordingMeansBothActive ==
  (recording /\ \A k \in Calls : pc[k] \notin Suspended) =>
    /\ wsRef # 0 /\ ConnectionActive(wsRef)
    /\ mediaStreamRef # 0 /\ stream[mediaStreamRef] = "live"
    /\ audioContextRef # 0 /\ ctx[audioContextRef] = "running"
    /\ workletNodeRef # 0 /\ node[workletNodeRef] = "connected"

\* ---- C12 ------------------------------------------------------------------
\* C12: a stop that directly follows a stop performs no release operation and
\* changes no resource.
C12_SecondStopReleasesNothing ==
  [][(lastOp = "stop" /\ lastOp' = "stop") =>
       /\ lastStopOps' = <<>>
       /\ ws' = ws /\ ctx' = ctx /\ stream' = stream /\ node' = node]_vars

\* ---- C13 ------------------------------------------------------------------
ReleaseOrderClaimed ==
  <<"disconnectNode", "stopTracks", "closeContext", "closeSocket">>
ReleaseOrderInCode ==
  <<"disconnectNode", "closeContext", "stopTracks", "closeSocket">>

position(op, order) == CHOOSE i \in 1..Len(order) : order[i] = op

inOrder(ops, order) ==
  \A i, j \in 1..Len(ops) :
    i < j => position(ops[i], order) < position(ops[j], order)

\* C13 as claimed: stop disconnects the capture graph, then stops the tracks,
\* then closes the audio context, then closes the connection.
C13_ClaimedReleaseOrder ==
  lastOp = "stop" => inOrder(lastStopOps, ReleaseOrderClaimed)

\* C13 as amended: stop disconnects the capture graph, then closes the audio
\* context, then stops the tracks, then closes the connection.
C13_ReleaseOrder ==
  lastOp = "stop" => inOrder(lastStopOps, ReleaseOrderInCode)

\* A stop that released all four resources.
C13_Witness ==
  /\ lastOp = "stop"
  /\ Len(lastStopOps) = 4

\* ---- C15 ------------------------------------------------------------------
\* C15: at the moment microphone access is refused, the call's connection has
\* not been opened and is not open or connecting.
C15_RefusalAbortsBeforeConnecting ==
  [][\A k \in Calls :
       (pc[k] = "getUserMedia" /\ pc'[k] = "rejected") =>
         (~ConnectionActive(k)' /\ sent'[k] = <<>>)]_vars

\* ---- C16 ------------------------------------------------------------------
\* C16: a frame delivered while the session is recording (the state's current
\* value) and the referenced connection is OPEN adds exactly one audio frame
\* to that connection.
C16_EveryFrameSentWhileActive ==
  [][(lastOp' = "frame" /\ recording /\ wsRef # 0 /\ ws[wsRef] = "OPEN") =>
       audioCount(sent'[wsRef]) = audioCount(sent[wsRef]) + 1]_vars

\* ---- C17 ------------------------------------------------------------------
TransitionsClaimed ==
  { <<"none", "CONNECTING">>, <<"CONNECTING", "OPEN">>, <<"OPEN", "CLOSING">>,
    <<"CLOSING", "CLOSED">>, <<"OPEN", "CLOSED">> }
TransitionsInCode ==
  TransitionsClaimed \cup
    { <<"CONNECTING", "CLOSING">>, <<"CONNECTING", "CLOSED">> }

\* C17 as claimed: a connection's state changes only along
\* Idle -> Connecting -> Open -> Closing -> Closed, or Open -> Closed.
C17_ClaimedTransitionsOnly ==
  [][\A k \in Calls :
       ws'[k] # ws[k] => <<ws[k], ws'[k]>> \in TransitionsClaimed]_vars

\* C17 as amended: the same, and a connecting socket may also start closing
\* (stop before it opened) or become closed (it failed to open).
C17_TransitionsOnly ==
  [][\A k \in Calls :
       ws'[k] # ws[k] => <<ws[k], ws'[k]>> \in TransitionsInCode]_vars

\* A socket that stop closed before it had opened.
C17_Witness ==
  \E k \in Calls : ws[k] = "CLOSING" /\ sent[k] = <<>>

\* ---- C18 ------------------------------------------------------------------
\* C18: a socket starts connecting only in a step that is a start call, and it
\* is that call's socket.
C18_NoAutomaticReconnect ==
  [][\A k \in Calls :
       (ws'[k] = "CONNECTING" /\ ws[k] # "CONNECTING") =>
         (nCalls' = nCalls + 1 /\ k = nCalls')]_vars

\* No stop has closed anything, the first connection is closed (it failed or
\* the peer dropped it), and the second start call made a new one.
C18_Witness ==
  /\ nCalls = 2 /\ sinceStop = 2
  /\ ws[1] = "CLOSED"
  /\ ws[2] = "CONNECTING"

\* ---- C14 ------------------------------------------------------------------
\* C14: every stop, also one in which a release call raises, ends normally
\* and leaves the referenced tracks stopped and the referenced connection
\* closing or closed.
C14_ReleaseFailureIsContained ==
  [][lastOp' \in {"stop", "stopRaised"} =>
       /\ lastOp' = "stop"
       /\ (mediaStreamRef # 0 => stream'[mediaStreamRef] = "stopped")
       /\ (wsRef # 0 => ~ConnectionActive(wsRef)')]_vars

\* ---- C19 ------------------------------------------------------------------
\* C19: a step that handles a text frame starts no read and no playback; a
\* step that starts reading a binary frame, or plays it, leaves the chat
\* history and its stored copy as they are; every clip is played as 24000 Hz
\* PCM.
C19_DispatchByKind ==
  [][/\ nTexts' # nTexts => (played' = played /\ reads' = reads)
     /\ (reads' # reads \/ played' # played) =>
          (conversations' = conversations /\ stored' = stored)
     /\ played' # played => playRate' = 24000]_vars

\* A session in which a text frame was appended to the history and a binary
\* frame was played.
C19_Witness ==
  /\ nTexts >= 1
  /\ played >= 1
  /\ playRate = 24000
  /\ \E i \in 1..Len(conversations) : Len(conversations[i].messages) >= 1

\* ---- C20 ------------------------------------------------------------------
\* The ids of the messages of the conversation with id cur in convs.
messageIds(convs, cur) ==
  LET found == {i \in 1..Len(convs) : convs[i].id = cur} IN
    IF found = {} THEN <<>>
    ELSE LET msgs == convs[CHOOSE i \in found : TRUE].messages IN
           [i \in 1..Len(msgs) |-> msgs[i].id]

\* C20: the current conversation holds every text message received, in
\* arrival order, in the state and in the stored copy.
C20_AllTextsInHistory ==
  nTexts > 0 =>
    /\ messageIds(conversations, currentConversationId) = [i \in 1..nTexts |-> i]
    /\ messageIds(stored, currentConversationId) = [i \in 1..nTexts |-> i]

\* ---- C21 ------------------------------------------------------------------
\* C21: downsampleBuffer called with outSampleRate equal to or greater than
\* sampleRate returns its input buffer, and writes the console error exactly
\* when outSampleRate is greater.
C21_IdentityWhenNotDownsampling ==
  (applied = "downsampleBuffer" /\ outSampleRate >= sampleRate) =>
    /\ result = buffer
    /\ warned <=> (outSampleRate > sampleRate)

\* A call with a target rate above the source rate and a buffer of several
\* samples.
C21_Witness ==
  /\ applied = "downsampleBuffer"
  /\ outSampleRate > sampleRate
  /\ Len(buffer) >= 2
  /\ warned

\* ---- C22 ------------------------------------------------------------------
\* C22: downsampling a buffer of equal samples v whose length is a multiple of
\* the ratio, from a rate that is a multiple of the target rate, gives
\* length/ratio samples, each equal to v.
C22_ConstantBufferKeepsValue ==
  (/\ applied = "downsampleBuffer"
   /\ sampleRate > outSampleRate /\ sampleRate % outSampleRate = 0
   /\ Len(buffer) % (sampleRate \div outSampleRate) = 0
   /\ \A i \in 1..Len(buffer) : buffer[i] = buffer[1]) =>
    /\ Len(result) = Len(buffer) \div (sampleRate \div outSampleRate)
    /\ \A o \in 1..Len(result) : result[o] = buffer[1]

\* ---- C23 ------------------------------------------------------------------
\* C23: for sampleRate > outSampleRate the returned length L is the integer
\* nearest to length * outSampleRate / sampleRate, a half going up:
\* -1/2 < L - length * outSampleRate / sampleRate <= 1/2.
C23_LengthIsRoundedQuotient ==
  (applied = "downsampleBuffer" /\ sampleRate > outSampleRate) =>
    LET d == 2 * (Len(result) * sampleRate - Len(buffer) * outSampleRate) IN
      -sampleRate < d /\ d <= sampleRate

\* A call whose quotient is no integer and is rounded up to a non-empty
\* result.
C23_Witness ==
  /\ applied = "downsampleBuffer"
  /\ sampleRate > outSampleRate
  /\ Len(result) * sampleRate > Len(buffer) * outSampleRate
  /\ Len(result) >= 2

\* ---- C24 ------------------------------------------------------------------
\* The unsigned integer stored least significant byte first in the n bytes of
\* bytes that follow offset off.
RECURSIVE readLittleEndian(_, _, _)
readLittleEndian(bytes, off, n) ==
  IF n = 0 THEN 0
  ELSE bytes[off + 1] + 256 * readLittleEndian(bytes, off + 1, n - 1)

\* C24: encodeWAV of n samples gives 44 + 2n bytes; the RIFF chunk size at
\* offset 4 is 36 + 2n, the data size at offset 40 is 2n, the channel count at
\* offset 22 is 1, the bits per sample at offset 34 are 16 and the sample rate
\* at offset 24 is the rate given.
C24_WavSizesMatch ==
  applied = "encodeWAV" =>
    /\ Len(result) = 44 + 2 * Len(buffer)
    /\ readLittleEndian(result, 4, 4) = 36 + 2 * Len(buffer)
    /\ readLittleEndian(result, 4, 4) = Len(result) - 8
    /\ readLittleEndian(result, 40, 4) = 2 * Len(buffer)
    /\ readLittleEndian(result, 22, 2) = 1
    /\ readLittleEndian(result, 34, 2) = 16
    /\ readLittleEndian(result, 24, 4) = sampleRate

\* A clip of several samples encoded at the rate of inbound audio.
C24_Witness ==
  /\ applied = "encodeWAV"
  /\ Len(buffer) >= 2
  /\ sampleRate = 24000
  /\ Len(result) > 44

\* ---- C25 ------------------------------------------------------------------
\* C25: every element convertFloat32ToInt16 returns is in -32768..32767, a
\* sample of -1 gives -32768 and a sample of 1 gives 32767.
C25_QuantizeStaysInRange ==
  applied = "convertFloat32ToInt16" =>
    \A i \in 1..Len(floatBuffer) :
      /\ result[i] >= -32768 /\ result[i] <= 32767
      /\ floatBuffer[i] = -SampleDen => result[i] = -32768
      /\ floatBuffer[i] = SampleDen => result[i] = 32767

\* A buffer with a sample of -1 and a sample above 1.
C25_Witness ==
  /\ applied = "convertFloat32ToInt16"
  /\ \E i \in 1..Len(floatBuffer) : floatBuffer[i] = -SampleDen
  /\ \E i \in 1..Len(floatBuffer) : floatBuffer[i] > SampleDen
  /\ Len(result) = Len(floatBuffer)

\* ---- C26 ------------------------------------------------------------------
\* C26: every element convertFloat32ToInt16 returns is within 1/2 of the
\* scaled clamped sample (s * 32767 for s >= 0, s * 32768 for s < 0).
C26_QuantizeRoundsToNearest ==
  applied = "convertFloat32ToInt16" =>
    \A i \in 1..Len(floatBuffer) :
      LET c == IF floatBuffer[i] > SampleDen THEN SampleDen
               ELSE IF floatBuffer[i] < -SampleDen THEN -SampleDen
               ELSE floatBuffer[i]
          x == IF c < 0 THEN c * 32768 ELSE c * 32767
          d == result[i] * SampleDen - x
      IN  2 * d <= SampleDen /\ -SampleDen <= 2 * d

\* ---- C27 ------------------------------------------------------------------
\* C27: for sampleRate > outSampleRate and a non-empty buffer, the indices
\* read for every output element are a non-empty set of indices of the
\* buffer, the first block starts at 0 and every other block starts right after
\* the end of the one before.
C27_BlocksNonEmptyAndConsecutive ==
  (applied = "downsampleBuffer" /\ sampleRate > outSampleRate /\ buffer # <<>>) =>
    \A o \in 0..(Len(result) - 1) :
      LET idx == blockIndices(Len(buffer), o, sampleRate, outSampleRate)
          least == CHOOSE j \in idx : \A x \in idx : j <= x
          before == blockIndices(Len(buffer), o - 1, sampleRate, outSampleRate)
      IN  /\ idx # {}
          /\ idx \subseteq 0..(Len(buffer) - 1)
          /\ idx = least..(least + Cardinality(idx) - 1)
          /\ IF o = 0 THEN least = 0
             ELSE \A x \in before : x = least - 1 \/ x < least - 1
          /\ o > 0 => (least - 1) \in before

\* A call with several output elements whose last block is cut off by the end
\* of the buffer.
C27_Witness ==
  /\ applied = "downsampleBuffer"
  /\ sampleRate > outSampleRate
  /\ Len(result) >= 2
  /\ nextOffsetBuffer(Len(result) - 1, sampleRate, outSampleRate) > Len(buffer)

\* ---- C28 ------------------------------------------------------------------
\* Every conversation of old is in new, with every message it has in old.
keepsAll(new, old) ==
  \A i \in 1..Len(old) :
    \E j \in 1..Len(new) :
      /\ new[j].id = old[i].id
      /\ \A m \in 1..Len(old[i].messages) :
           \E n \in 1..Len(new[j].messages) :
             new[j].messages[n] = old[i].messages[m]

\* C28: the step in which a handleSubmit call appends its reply or its error
\* message removes no conversation and no message, from the list and from
\* local storage.
C28_SubmitLosesNothing ==
  [][\A s \in Submits :
       (pcSubmit[s] = "awaiting" /\ pcSubmit'[s] = "done") =>
         /\ keepsAll(conversations', conversations)
         /\ keepsAll(stored', stored)]_vars

\* ---- C29 ------------------------------------------------------------------
\* C29: from every state in which isThinking is true, isThinking becomes
\* false or the user calls start or submits again.
C29_ThinkingEventuallyClears ==
  \A n \in 0..(MaxCalls + MaxSubmits) :
    (isThinking /\ nCalls + nSubmits = n)
      ~> (~isThinking \/ nCalls + nSubmits # n)

\* ---- C30 ------------------------------------------------------------------
\* The messages of the conversation with id cur in convs, <<>> if there is
\* none.
messagesOf(convs, cur) ==
  LET found == {i \in 1..Len(convs) : convs[i].id = cur} IN
    IF found = {} THEN <<>>
    ELSE convs[CHOOSE i \in found : TRUE].messages

\* The number of AI-side messages in msgs.
aiCount(msgs) == Cardinality({i \in 1..Len(msgs) : msgs[i].sender = "ai"})

\* C30: the step that ends a handleSubmit call leaves the conversation that
\* was current at submit time with one AI-side message more than before, the
\* reply or the error message of the call and not both, and no file attached;
\* while the text is blank and no file is attached no step issues a request.
C30_OneAnswerPerSubmit ==
  [][/\ \A s \in Submits :
          (pcSubmit[s] = "awaiting" /\ pcSubmit'[s] = "done") =>
            LET before == messagesOf(conversations, subCur[s])
                after == messagesOf(conversations', subCur[s])
                own == {i \in 1..Len(after) :
                          after[i].id \in {messageId(s, "reply"),
                                           messageId(s, "error")}}
            IN  /\ aiCount(after) = aiCount(before) + 1
                /\ Cardinality(own) = 1
                /\ ~attachedFile'
     /\ (trim(message) = "" /\ ~attachedFile) =>
          /\ nSubmits' = nSubmits
          /\ \A s \in Submits :
               pcSubmit'[s] = "awaiting" => pcSubmit[s] = "awaiting"]_vars

====
